---- MODULE Spec2Model ----
(***************************************************************************)
(* jcwillox/go-yamltools, loaders.go: the custom-tag walker                *)
(* HandleCustomTag and the two include passes built on it, LoadIncludeTag  *)
(* and LoadIncludeDirNamedTag.                                             *)
(*                                                                         *)
(* A yaml.Node is a record [Kind, Tag, Value, Content].  Strings that the  *)
(* code takes apart (paths, file names, scalar values) are sequences of    *)
(* one-character strings; "" is <<>>.  A position in the document is the   *)
(* sequence of 1-based Content indices leading to it from the root, so Go  *)
(* index i is index i+1 here.                                              *)
(*                                                                         *)
(* One behaviour is one pass over one document: the recursion of           *)
(* HandleCustomTag is the variable stack, one frame per active call.       *)
(***************************************************************************)
EXTENDS Integers, Sequences, FiniteSets, TLC

VARIABLES
    tree,    \* the document the caller handed in, mutated in place
    fsys,    \* the directory tree on disk that !include_dir_named paths name
    pc,      \* "idle" | "running" | "done"
    op,      \* the pass that was started
    tag,     \* the tag the pass searches for
    stack,   \* active HandleCustomTag calls: [path, k], k = loop position
    result,  \* the error value the top-level call returned ("nil" = none)
    calls,   \* history: the resolver calls so far, [path, err, node]; node is
             \* what the call left at path
    orig,    \* history: the document as it was when the pass started
    steps    \* history: the steps the pass has taken

vars == <<tree, fsys, pc, op, tag, stack, result, calls, orig, steps>>

----------------------------------------------------------------------------
(* Bounds of the explored inputs *)

\* nodes in the document
MaxNodes == 5
\* document nodes plus directory entries (the root entry included), for
\* documents that carry !include_dir_named
MaxSize == 5

----------------------------------------------------------------------------
(* yaml.Node *)

ScalarNode == "ScalarNode"
SequenceNode == "SequenceNode"
MappingNode == "MappingNode"

NoError == "nil"

IncludeTag == "!include"
IncludeDirNamedTag == "!include_dir_named"
CustomTag == "!t"

Scalar(t, v) == [Kind |-> ScalarNode, Tag |-> t, Value |-> v, Content |-> <<>>]
Collection(kind, t, c) == [Kind |-> kind, Tag |-> t, Value |-> <<>>, Content |-> c]

RECURSIVE NodeAt(_, _)
NodeAt(n, p) == IF p = <<>> THEN n ELSE NodeAt(n.Content[Head(p)], Tail(p))

\* *n = r at position p: the pointee is overwritten, the parent keeps its pointer
RECURSIVE Overwrite(_, _, _)
Overwrite(n, p, r) ==
    IF p = <<>> THEN r
    ELSE [n EXCEPT !.Content[Head(p)] = Overwrite(@, Tail(p), r)]

RECURSIVE NodeCount(_)
RECURSIVE ForestCount(_)
NodeCount(n) == 1 + ForestCount(n.Content)
ForestCount(f) == IF f = <<>> THEN 0 ELSE NodeCount(Head(f)) + ForestCount(Tail(f))

RECURSIVE PathsOf(_)
PathsOf(n) ==
    {<<>>} \cup UNION { { <<i>> \o p : p \in PathsOf(n.Content[i]) } : i \in 1..Len(n.Content) }

IsPrefix(p, q) == Len(p) <= Len(q) /\ SubSeq(q, 1, Len(p)) = p

\* the path tagged scalars name
RootName == <<"d">>

\* The documents whose only non-default tag is t, by number of nodes: tab[k]
\* holds those of k nodes, and the Content of a node of n nodes is a sequence
\* of documents counting n - 1 nodes together.  A mapping has an even number
\* of children.
RECURSIVE ForestsOfSize(_, _)
ForestsOfSize(tab, m) ==
    IF m = 0 THEN {<<>>}
    ELSE UNION { { <<x>> \o f : x \in tab[k], f \in ForestsOfSize(tab, m - k) } : k \in 1..m }

TreesOfSize(tab, n, t) ==
    IF n = 1 THEN {Scalar("!!str", <<"v">>), Scalar(t, RootName)}
    ELSE LET fs == ForestsOfSize(tab, n - 1)
         IN  { Collection(SequenceNode, tg, f) : tg \in {"!!seq", t}, f \in fs }
             \cup { Collection(MappingNode, tg, f) :
                        tg \in {"!!map", t}, f \in { g \in fs : Len(g) % 2 = 0 } }

RECURSIVE TreeTable(_, _)
TreeTable(tab, t) ==
    IF Len(tab) = MaxNodes THEN tab
    ELSE TreeTable(Append(tab, TreesOfSize(tab, Len(tab) + 1, t)), t)

Trees(t) == UNION { TreeTable(<<>>, t)[n] : n \in 1..MaxNodes }

Tags == {CustomTag, IncludeTag, IncludeDirNamedTag}

RECURSIVE HasTag(_, _)
HasTag(n, t) == n.Tag = t \/ \E i \in 1..Len(n.Content) : HasTag(n.Content[i], t)

----------------------------------------------------------------------------
(* Paths and file names *)

Separator == "/"

\* filepath.Join(dir, name) for a clean dir and a single name
Join(dir, name) == dir \o <<Separator>> \o name

\* filepath.Base(path) for a path that does not end in a separator
RECURSIVE Base(_)
Base(path) ==
    IF path = <<>> THEN <<>>
    ELSE IF path[Len(path)] = Separator THEN <<>>
    ELSE Base(SubSeq(path, 1, Len(path) - 1)) \o <<path[Len(path)]>>

\* the loop of fileNameWithoutExt from Go index i - 1 downwards
RECURSIVE ScanExt(_, _)
ScanExt(path, i) ==
    IF i < 1 \/ path[i] = Separator THEN <<>>
    ELSE IF path[i] = "." THEN SubSeq(path, 1, i - 1)
    ELSE ScanExt(path, i - 1)

fileNameWithoutExt(path) == ScanExt(path, Len(path))

----------------------------------------------------------------------------
(* The filesystem *)

\* what os.ReadFile and yaml.Unmarshal make of one file
FileContent == Scalar("!!int", <<"1">>)
NoContent == Scalar("", <<>>)

File(name, readable, parses) ==
    [name |-> name, mode |-> "file", readable |-> readable, parses |-> parses,
     content |-> FileContent, entries |-> <<>>]
FileWith(name, c) ==
    [name |-> name, mode |-> "file", readable |-> TRUE, parses |-> TRUE,
     content |-> c, entries |-> <<>>]
Dir(name, readable, es) ==
    [name |-> name, mode |-> "dir", readable |-> readable, parses |-> FALSE,
     content |-> NoContent, entries |-> es]
Missing(name) ==
    [name |-> name, mode |-> "missing", readable |-> FALSE, parses |-> FALSE,
     content |-> NoContent, entries |-> <<>>]

\* the file names on disk: without a '.', starting with the only '.', and
\* with an extension
Names == { <<"a">>, <<".", "a">>, <<"a", ".", "y">> }

\* os.ReadDir returns the entries sorted by file name
CharRank(c) == IF c = "." THEN 0 ELSE IF c = "a" THEN 1 ELSE 2
CharLess(c, d) == CharRank(c) < CharRank(d)
RECURSIVE NameLess(_, _)
NameLess(s, u) ==
    IF u = <<>> THEN FALSE
    ELSE IF s = <<>> THEN TRUE
    ELSE IF Head(s) = Head(u) THEN NameLess(Tail(s), Tail(u))
    ELSE CharLess(Head(s), Head(u))

\* directory entries (with what is below them) counting k entries in all
RECURSIVE EntriesOfSize(_)
RECURSIVE ListingsOfSize(_)
EntriesOfSize(k) ==
    IF k = 1
    THEN { File(nm, r, TRUE) : nm \in Names, r \in BOOLEAN }
         \cup { File(nm, TRUE, FALSE) : nm \in Names }
         \cup { Dir(nm, r, <<>>) : nm \in Names, r \in BOOLEAN }
    ELSE { Dir(nm, TRUE, l) : nm \in Names, l \in ListingsOfSize(k - 1) }
ListingsOfSize(m) ==
    IF m = 0 THEN {<<>>}
    ELSE UNION { UNION { { <<e>> \o l : l \in { x \in ListingsOfSize(m - k) :
                                                   x = <<>> \/ NameLess(e.name, x[1].name) } }
                         : e \in EntriesOfSize(k) }
                 : k \in 1..m }

RootsOfSize(k) ==
    IF k = 1
    THEN { Missing(RootName), File(RootName, TRUE, TRUE),
           Dir(RootName, FALSE, <<>>), Dir(RootName, TRUE, <<>>) }
    ELSE { Dir(RootName, TRUE, l) : l \in ListingsOfSize(k - 1) }

\* the directory trees of at most k entries, for every k below MaxSize
Roots == [k \in 1..(MaxSize - 1) |-> UNION { RootsOfSize(j) : j \in 1..k }]

\* os.Lstat: what is found at a path
Lookup(fs, path) == IF path = fs.name THEN fs ELSE Missing(path)

----------------------------------------------------------------------------
(* LoadFileFragment and the two resolvers *)

\* LoadFileFragment: os.ReadFile, then yaml.Unmarshal into a Fragment
LoadFileFragment(file) ==
    IF file.mode # "file" \/ ~file.readable THEN [err |-> "read error", node |-> NoContent]
    ELSE IF ~file.parses THEN [err |-> "parse error", node |-> NoContent]
    ELSE [err |-> NoError, node |-> file.content]

\* what a file named by an !include may hold; a file can include itself
Fragments(path) ==
    { FileContent, Scalar(IncludeTag, path),
      Collection(SequenceNode, "!!seq", <<Scalar(IncludeTag, path)>>) }

\* what an !include may find at a path ("" names no file)
FilesAt(path) ==
    { Missing(path) } \cup
    (IF path = <<>> THEN {}
     ELSE { File(path, TRUE, FALSE) } \cup { FileWith(path, c) : c \in Fragments(path) })

\* the function literal of LoadIncludeTag
IncludeResolver(n, file) ==
    LET r == LoadFileFragment(file)
    IN  IF r.err # NoError THEN [err |-> r.err, node |-> n]
        ELSE [err |-> NoError, node |-> r.node]

\* the function literal handed to filepath.WalkDir; err is its third parameter
WalkDirFunc(root, path, entry, err, content) ==
    IF path = root THEN [err |-> NoError, content |-> content]
    ELSE IF entry.mode = "dir" THEN [err |-> NoError, content |-> content]
    ELSE LET r == LoadFileFragment(entry)
         IN  IF r.err # NoError THEN [err |-> r.err, content |-> content]
             ELSE [err |-> NoError,
                   content |-> content \o
                       << Scalar("!!str", fileNameWithoutExt(Base(path))), r.node >>]

\* filepath.WalkDir: the callback sees every entry below root, directories
\* included, in lexical order; a failed Lstat of root or a failed ReadDir is
\* reported to the callback, and the walk goes on unless the callback
\* returns an error
RECURSIVE walkDir(_, _, _, _)
RECURSIVE walkEntries(_, _, _, _)
walkDir(root, path, d, content) ==
    LET r1 == WalkDirFunc(root, path, d, NoError, content)
    IN  IF r1.err # NoError \/ d.mode # "dir" THEN r1
        ELSE LET r2 == IF d.readable THEN r1
                       ELSE WalkDirFunc(root, path, d, "readdir error", r1.content)
             IN  IF r2.err # NoError THEN r2
                 ELSE walkEntries(root, path, d.entries, r2.content)
walkEntries(root, path, es, content) ==
    IF es = <<>> THEN [err |-> NoError, content |-> content]
    ELSE LET r == walkDir(root, Join(path, Head(es).name), Head(es), content)
         IN  IF r.err # NoError THEN r
             ELSE walkEntries(root, path, Tail(es), r.content)

WalkDir(root, e) ==
    IF e.mode = "missing" THEN WalkDirFunc(root, root, e, "lstat error", <<>>)
    ELSE walkDir(root, root, e, <<>>)

\* the function literal of LoadIncludeDirNamedTag
IncludeDirNamedResolver(n, fs) ==
    LET w == WalkDir(n.Value, Lookup(fs, n.Value))
    IN  IF w.err # NoError THEN [err |-> w.err, node |-> n]
        ELSE [err |-> NoError, node |-> Collection(MappingNode, "!!map", w.content)]

\* a caller's TagProcessor: it fails, or overwrites the node; the new content
\* may carry the searched tag again
CustomErrors == {"e1", "e2"}
Replacements(n, t) ==
    { n, Scalar("!!str", <<"r">>), Collection(SequenceNode, "!!seq", <<Scalar(t, RootName)>>) }
TagProcessor(n, t) ==
    { [err |-> e, node |-> n] : e \in CustomErrors } \cup
    { [err |-> NoError, node |-> r] : r \in Replacements(n, t) }

----------------------------------------------------------------------------
(* HandleCustomTag *)

\* faulty variant: the comparison inverted
TagMatchesInverted(n, t) == n.Tag # t

\* n.Tag == tag
TagMatches(n, t) == n.Tag = t

\* faulty variant: the sequence loop runs from the last child to the first
ChildOrderReversed(n) ==
    IF n.Kind = SequenceNode THEN [j \in 1..Len(n.Content) |-> Len(n.Content) + 1 - j]
    ELSE IF n.Kind = MappingNode THEN [j \in 1..(Len(n.Content) \div 2) |-> 2 * j]
    ELSE <<>>

\* faulty variant: the mapping loop starts at Go index 0 and steps by 1
ChildOrderWithKeys(n) ==
    IF n.Kind \in {SequenceNode, MappingNode} THEN [j \in 1..Len(n.Content) |-> j]
    ELSE <<>>

\* the Content indices the two loops recurse into, in loop order
ChildOrder(n) ==
    IF n.Kind = SequenceNode THEN [j \in 1..Len(n.Content) |-> j]
    ELSE IF n.Kind = MappingNode THEN [j \in 1..(Len(n.Content) \div 2) |-> 2 * j]
    ELSE <<>>

Pop(stk) == SubSeq(stk, 1, Len(stk) - 1)

\* faulty variant: no else, the loops run on the node fn was called on
AfterResolvedDescend(stk) == [stk EXCEPT ![Len(stk)].k = 1]

\* faulty variant: the node is checked again after fn overwrote it
AfterResolvedRevisit(stk) == [stk EXCEPT ![Len(stk)].k = 0]

\* fn returned nil: the call on the matched node returns nil and the node is
\* not looked at again
AfterResolved(stk) == Pop(stk)

\* faulty variant: the loop drops the error of a child and goes on
AfterErrorIgnored(stk) == Pop(stk)

\* fn returned an error: every active call returns it at once
AfterError(stk) == <<>>

\* faulty variant: a failed call restores the document of the start
AfterCallRollback(doc, p, out) ==
    IF out.err # NoError THEN orig ELSE Overwrite(doc, p, out.node)

\* the document after fn(n): what fn left in *n is all that changed, and a
\* failed call undoes nothing
AfterCall(doc, p, out) == Overwrite(doc, p, out.node)

Frame(p) == [path |-> p, k |-> 0]
Top == stack[Len(stack)]
Current == NodeAt(tree, Top.path)

\* the directory trees a document is explored with: only a document carrying
\* !include_dir_named reads the disk, and document and directory tree count
\* at most MaxSize nodes and entries together
Disks(doc) ==
    IF HasTag(doc, IncludeDirNamedTag) /\ NodeCount(doc) < MaxSize
    THEN Roots[MaxSize - NodeCount(doc)]
    ELSE {Missing(RootName)}

Init ==
    /\ \E t \in Tags : tree \in Trees(t)
    /\ fsys \in Disks(tree)
    /\ pc = "idle"
    /\ op = "none"
    /\ tag = ""
    /\ stack = <<>>
    /\ result = NoError
    /\ calls = <<>>
    /\ orig = tree
    /\ steps = 0

Begin(o, t) ==
    /\ pc = "idle"
    /\ pc' = "running"
    /\ op' = o
    /\ tag' = t
    /\ stack' = <<Frame(<<>>)>>
    /\ orig' = tree
    /\ steps' = 0
    /\ UNCHANGED <<tree, fsys, result, calls>>

HandleCustomTag == Begin("HandleCustomTag", CustomTag)
LoadIncludeTag == Begin("LoadIncludeTag", IncludeTag)
LoadIncludeDirNamedTag == Begin("LoadIncludeDirNamedTag", IncludeDirNamedTag)

\* the calls in stk go on; with none left the top-level call has returned err
Continue(stk, err) ==
    /\ stack' = stk
    /\ IF stk = <<>> THEN pc' = "done" /\ result' = err
       ELSE UNCHANGED <<pc, result>>

\* err := fn(n)
Call(out) ==
    /\ calls' = Append(calls, [path |-> Top.path, err |-> out.err, node |-> out.node])
    /\ tree' = AfterCall(tree, Top.path, out)
    /\ IF out.err # NoError THEN Continue(AfterError(stack), out.err)
       ELSE Continue(AfterResolved(stack), NoError)
    /\ steps' = steps + 1
    /\ UNCHANGED <<fsys, op, tag, orig>>

Visiting == pc = "running" /\ Top.k = 0

ResolveCustom ==
    /\ Visiting /\ op = "HandleCustomTag" /\ TagMatches(Current, tag)
    /\ \E out \in TagProcessor(Current, tag) : Call(out)

ResolveInclude ==
    /\ Visiting /\ op = "LoadIncludeTag" /\ TagMatches(Current, tag)
    /\ \E file \in FilesAt(Current.Value) : Call(IncludeResolver(Current, file))

ResolveIncludeDirNamed ==
    /\ Visiting /\ op = "LoadIncludeDirNamedTag" /\ TagMatches(Current, tag)
    /\ Call(IncludeDirNamedResolver(Current, fsys))

Enter(kind) ==
    /\ Visiting /\ ~TagMatches(Current, tag) /\ Current.Kind = kind
    /\ stack' = [stack EXCEPT ![Len(stack)].k = 1]
    /\ steps' = steps + 1
    /\ UNCHANGED <<tree, fsys, pc, op, tag, result, calls, orig>>

EnterSequence == Enter(SequenceNode)
EnterMapping == Enter(MappingNode)

\* a node that neither matches nor is a sequence or mapping
ReturnLeaf ==
    /\ Visiting /\ ~TagMatches(Current, tag)
    /\ Current.Kind \notin {SequenceNode, MappingNode}
    /\ Continue(Pop(stack), NoError)
    /\ steps' = steps + 1
    /\ UNCHANGED <<tree, fsys, op, tag, calls, orig>>

\* err := HandleCustomTag(child, tag, fn) for the next child of the loop
Recurse ==
    /\ pc = "running" /\ Top.k >= 1 /\ Top.k <= Len(ChildOrder(Current))
    /\ stack' = [stack EXCEPT ![Len(stack)].k = @ + 1]
                \o <<Frame(Top.path \o <<ChildOrder(Current)[Top.k]>>)>>
    /\ steps' = steps + 1
    /\ UNCHANGED <<tree, fsys, pc, op, tag, result, calls, orig>>

\* the loop is over: return nil
ReturnNil ==
    /\ pc = "running" /\ Top.k >= 1 /\ Top.k > Len(ChildOrder(Current))
    /\ Continue(Pop(stack), NoError)
    /\ steps' = steps + 1
    /\ UNCHANGED <<tree, fsys, op, tag, calls, orig>>

Next ==
    \/ HandleCustomTag
    \/ LoadIncludeTag
    \/ LoadIncludeDirNamedTag
    \/ ResolveCustom
    \/ ResolveInclude
    \/ ResolveIncludeDirNamed
    \/ EnterSequence
    \/ EnterMapping
    \/ ReturnLeaf
    \/ Recurse
    \/ ReturnNil

Spec == Init /\ [][Next]_vars

----------------------------------------------------------------------------
(* Document order and the matches of a pass, stated without the walker *)

\* p comes before q in document order (depth-first pre-order)
RECURSIVE DocBefore(_, _)
DocBefore(p, q) ==
    IF p = <<>> THEN q # <<>>
    ELSE IF q = <<>> THEN FALSE
    ELSE IF Head(p) = Head(q) THEN DocBefore(Tail(p), Tail(q))
    ELSE Head(p) < Head(q)

Ancestors(p) == { SubSeq(p, 1, j) : j \in 0..(Len(p) - 1) }

\* index i of a's Content is a sequence child or a mapping value
IsValueStep(a, i) ==
    \/ a.Kind = SequenceNode
    \/ a.Kind = MappingNode /\ i % 2 = 0

\* p is reached through sequence children and mapping values only
ThroughValues(doc, p) ==
    \A j \in 1..Len(p) : IsValueStep(NodeAt(doc, SubSeq(p, 1, j - 1)), p[j])

\* the matches of a pass: tagged nodes reached through values, outside every
\* other tagged node
MatchesOf(doc, t) ==
    { p \in PathsOf(doc) :
        /\ NodeAt(doc, p).Tag = t
        /\ ThroughValues(doc, p)
        /\ \A a \in Ancestors(p) : NodeAt(doc, a).Tag # t }

CallPaths == { calls[i].path : i \in 1..Len(calls) }
Failed == pc = "done" /\ result # NoError
LastCall == calls[Len(calls)]

----------------------------------------------------------------------------
(* Claims *)

\* C4: the first error the resolver returns is what the top-level call
\* returns, and the resolver is not invoked again after it: a call that
\* returned an error is the last call, the pass is over at once and its
\* result is that error; a failed pass returns the error of its last call.
C4_FirstErrorAborts ==
    /\ \A i \in 1..Len(calls) :
         calls[i].err # NoError =>
            i = Len(calls) /\ pc = "done" /\ result = calls[i].err /\ stack = <<>>
    /\ Failed => calls # <<>> /\ LastCall.err = result

\* a pass that failed at its second match with a third match still to come
C4_Witness ==
    /\ Failed
    /\ Len(calls) = 2
    /\ \E p \in MatchesOf(orig, tag) : DocBefore(LastCall.path, p)

\* C5: when a pass fails at the k-th match, the k-1 matches resolved before
\* it keep what the resolver put there and the matches after it are as they
\* were before the pass.
C5_NoRollback ==
    Failed =>
        LET matches == MatchesOf(orig, tag)
        IN  /\ CallPaths = { p \in matches : ~DocBefore(LastCall.path, p) }
            /\ \A i \in 1..(Len(calls) - 1) : NodeAt(tree, calls[i].path) = calls[i].node
            /\ \A p \in matches :
                 DocBefore(LastCall.path, p) => NodeAt(tree, p) = NodeAt(orig, p)

\* a failure after a match was given new content, with a match still to come
C5_Witness ==
    /\ Failed
    /\ \E i \in 1..(Len(calls) - 1) :
         /\ calls[i].node # NodeAt(orig, calls[i].path)
         /\ NodeAt(tree, calls[i].path) # NodeAt(orig, calls[i].path)
    /\ \E p \in MatchesOf(orig, tag) : DocBefore(LastCall.path, p)

\* C6: the resolver is invoked on the matches in document order, one call
\* after the other: the calls made so far are, in order, the first matches
\* of the document.
C6_DocumentOrder ==
    LET matches == MatchesOf(orig, tag)
    IN  /\ \A i, j \in 1..Len(calls) : i < j => DocBefore(calls[i].path, calls[j].path)
        /\ \A i \in 1..Len(calls) :
             /\ calls[i].path \in matches
             /\ \A p \in matches :
                  DocBefore(p, calls[i].path) => \E j \in 1..(i - 1) : calls[j].path = p
        /\ (pc = "done" /\ result = NoError) => CallPaths = matches

\* a finished pass over {a: !t X, b: !t Y}: both values resolved, X before Y
C6_Witness ==
    /\ pc = "done"
    /\ orig.Kind = MappingNode
    /\ Len(calls) = 2
    /\ calls[1].path = <<2>>
    /\ calls[2].path = <<4>>

\* C7: the walker does not descend into a node the resolver was invoked on:
\* no call is made on a descendant of a node of an earlier call, no node is
\* resolved twice, and no call of the walker is active at or below a
\* resolved node.
C7_NoDescentIntoMatch ==
    /\ \A i, j \in 1..Len(calls) : i # j => ~IsPrefix(calls[i].path, calls[j].path)
    /\ \A i \in 1..Len(calls) : \A f \in 1..Len(stack) :
         ~IsPrefix(calls[i].path, stack[f].path)

\* a finished pass that resolved a node with a tagged child, and that left
\* content carrying the tag behind
C7_Witness ==
    /\ pc = "done"
    /\ \E i \in 1..Len(calls) :
         LET n == NodeAt(orig, calls[i].path)
         IN  \E c \in 1..Len(n.Content) : n.Content[c].Tag = tag
    /\ \E i \in 1..Len(calls) :
         /\ calls[i].err = NoError
         /\ calls[i].node.Kind = SequenceNode
         /\ calls[i].node.Content[1].Tag = tag

\* C8: the resolver is never invoked on a mapping key nor below one, and the
\* walker never visits one: every step of the path of a call, and of an
\* active call of the walker, below a mapping is to a value (an odd Go
\* index).
C8_KeysNotVisited ==
    /\ \A i \in 1..Len(calls) : ThroughValues(orig, calls[i].path)
    /\ \A f \in 1..Len(stack) : ThroughValues(orig, stack[f].path)

\* a finished pass that invoked the resolver, over a document where a tagged
\* node in key position, or just below a key, is left as it was
C8_Witness ==
    /\ pc = "done"
    /\ calls # <<>>
    /\ \E p \in PathsOf(orig) :
         /\ NodeAt(orig, p).Tag = tag
         /\ ~ThroughValues(orig, p)
         /\ Len(p) = 2
         /\ NodeAt(tree, p) = NodeAt(orig, p)

SameNode(a, b) ==
    /\ a.Kind = b.Kind
    /\ a.Tag = b.Tag
    /\ a.Value = b.Value
    /\ Len(a.Content) = Len(b.Content)

\* C9: the walker changes the document only through the resolver: without a
\* node carrying the tag there is no call, no error and no change; and every
\* node that is not at or below a node the resolver was invoked on has the
\* kind, tag, value and children it had.
C9_OnlyResolverChanges ==
    /\ ~HasTag(orig, tag) => calls = <<>> /\ tree = orig /\ result = NoError
    /\ tree # orig =>
         LET now == PathsOf(tree)
         IN  \A p \in PathsOf(orig) :
                (\A i \in 1..Len(calls) : ~IsPrefix(calls[i].path, p)) =>
                    /\ p \in now
                    /\ SameNode(NodeAt(tree, p), NodeAt(orig, p))

\* a finished pass over a mapping of two pairs without any tagged node
C9_Witness ==
    /\ pc = "done"
    /\ ~HasTag(orig, tag)
    /\ orig.Kind = MappingNode
    /\ Len(orig.Content) = 4
    /\ tree = orig

\* the steps of a pass over a document of n nodes: each node is visited once,
\* each child is recursed into once and each loop ends once
MostSteps(n) == 3 * n

\* C10: a pass of LoadIncludeTag always ends, with success or an error, and
\* makes at most one resolver call per node of the original document, also
\* when an included file includes itself: a running pass can always take a
\* step, and the steps it takes are bounded by the size of the original
\* document, whatever is grafted.
C10_IncludeTerminates ==
    op = "LoadIncludeTag" =>
        /\ Len(calls) <= NodeCount(orig)
        /\ steps <= MostSteps(NodeCount(orig))
        /\ pc = "running" => ENABLED Next
        /\ pc = "done" => stack = <<>>

\* a finished pass that grafted the content of a file that includes itself
C10_Witness ==
    /\ pc = "done"
    /\ op = "LoadIncludeTag"
    /\ result = NoError
    /\ \E i \in 1..Len(calls) :
         /\ calls[i].node = NodeAt(orig, calls[i].path)
         /\ calls[i].node.Tag = IncludeTag

----------------------------------------------------------------------------
(* Claims about LoadIncludeDirNamedTag *)

RECURSIVE HasUnreadableDir(_)
HasUnreadableDir(e) ==
    /\ e.mode = "dir"
    /\ \/ ~e.readable
       \/ \E j \in 1..Len(e.entries) : HasUnreadableDir(e.entries[j])

\* the walk of e meets a filesystem error
CannotBeWalked(e) == e.mode = "missing" \/ HasUnreadableDir(e)

RECURSIVE EveryFileLoads(_)
EveryFileLoads(e) ==
    /\ e.mode = "file" => e.readable /\ e.parses
    /\ \A j \in 1..Len(e.entries) : EveryFileLoads(e.entries[j])

WalkErrors == {"lstat error", "readdir error"}

\* the directory a resolver call was about
DirOfCall(i) == Lookup(fsys, NodeAt(orig, calls[i].path).Value)

DirCalls == IF op = "LoadIncludeDirNamedTag" THEN 1..Len(calls) ELSE {}

\* the names of the regular files directly in directory e, in ReadDir order
DirectFiles(e) ==
    IF e.mode # "dir" THEN <<>>
    ELSE SelectSeq(e.entries, LAMBDA x : x.mode = "file")

\* the regular files below entry e, in the order of the walk
RECURSIVE FilesBelow(_)
RECURSIVE FilesIn(_)
FilesBelow(e) ==
    IF e.mode = "file" THEN <<e.name>>
    ELSE IF e.mode = "dir" THEN FilesIn(e.entries)
    ELSE <<>>
FilesIn(es) == IF es = <<>> THEN <<>> ELSE FilesBelow(Head(es)) \o FilesIn(Tail(es))

\* the files the walk of root e hands to LoadFileFragment
LoadedFiles(e) == IF e.mode = "dir" THEN FilesIn(e.entries) ELSE <<>>

Dots(name) == { j \in 1..Len(name) : name[j] = "." }
LastDot(name) == CHOOSE j \in Dots(name) : \A k \in Dots(name) : k <= j

\* a base name without its extension
NameWithoutExt(name) ==
    IF Dots(name) = {} THEN name ELSE SubSeq(name, 1, LastDot(name) - 1)

\* C1: when the path of an !include_dir_named node cannot be walked (it does
\* not exist, or the directory or a sub-directory cannot be read), the pass
\* returns that filesystem error and the node is not replaced by a mapping.
C1_WalkErrorReturned ==
    \A i \in DirCalls :
        CannotBeWalked(DirOfCall(i)) =>
            /\ calls[i].err # NoError
            /\ EveryFileLoads(DirOfCall(i)) => calls[i].err \in WalkErrors
            /\ result = calls[i].err
            /\ calls[i].node = NodeAt(orig, calls[i].path)

\* C2: the mapping substituted for an !include_dir_named node has exactly one
\* pair per regular file directly in the named directory and none for a file
\* in a sub-directory.
C2_OnlyDirectFiles ==
    \A i \in DirCalls :
        calls[i].err = NoError =>
            /\ calls[i].node.Kind = MappingNode
            /\ Len(calls[i].node.Content) = 2 * Len(DirectFiles(DirOfCall(i)))

\* C3: the key of the pair of every loaded file is a !!str scalar holding the
\* file's base name without its extension: cut at its last '.', and whole
\* when it has no '.'.
C3_KeyIsNameWithoutExt ==
    \A i \in DirCalls :
        calls[i].err = NoError =>
            LET names == LoadedFiles(DirOfCall(i))
                pairs == calls[i].node.Content
            IN  /\ Len(pairs) = 2 * Len(names)
                /\ \A j \in 1..Len(names) :
                     pairs[2 * j - 1] = Scalar("!!str", NameWithoutExt(names[j]))

====
